---------------------------- MODULE Spec2Model ----------------------------
(***************************************************************************)
(* CV parsing and semantic matching: the embedding artifact written by     *)
(* SemanticMatcher.precompute_all_embeddings, the candidates and           *)
(* cv_embeddings tables of CVDatabase, and the two ranking calls           *)
(* SemanticMatcher.rank_candidates and HybridMatcher.hybrid_rank.          *)
(*                                                                         *)
(* Texts are sequences of one-character strings.  Scores are exact         *)
(* fractions <<numerator, denominator>> in lowest terms (the code uses     *)
(* binary floating point; rounding is not modelled).  Weights are integers *)
(* in thousandths.                                                         *)
(***************************************************************************)
EXTENDS Integers, Sequences, FiniteSets, TLC

VARIABLES
    candidates,      \* table candidates: id -> [name, email, full_text]
    next_id,         \* AUTOINCREMENT counter of table candidates
    cv_embeddings,   \* table cv_embeddings: candidate_id -> [vector, model_name]
    embeddings_file, \* database/cv_embeddings.npz
    metadata_file,   \* database/cv_metadata.json
    model_name,      \* SemanticMatcher.model_name of the stand-alone matcher
    last,            \* the last call: its arguments, outcome and what it read
    everStored,      \* history: a precompute or a store_embedding has been called
    upserted,        \* history: ids given to store_embedding since the last precompute
    text_a,          \* first argument of the text functions when called alone
    text_b,          \* second argument of the text functions when called alone
    applied          \* the text function called alone and what it returned

\* the arguments and the result of a text function called on its own
textVars == <<text_a, text_b, applied>>

vars == <<candidates, next_id, cv_embeddings, embeddings_file, metadata_file,
          model_name, last, everStored, upserted, text_a, text_b, applied>>

---------------------------------------------------------------------------
(* Bounds of the model *)

\* ids the candidates table hands out before the model stops inserting
MaxId == 2

\* length of the longest text of the exhaustive text set
MaxLen == 4

\* rows of the longest CSV file given to batch_process_csv
MaxRows == 2

---------------------------------------------------------------------------
(* Characters and texts *)

UpperChars ==
    <<"A","B","C","D","E","F","G","H","I","J","K","L","M",
      "N","O","P","Q","R","S","T","U","V","W","X","Y","Z">>

LowerChars ==
    <<"a","b","c","d","e","f","g","h","i","j","k","l","m",
      "n","o","p","q","r","s","t","u","v","w","x","y","z">>

DigitChars == <<"0","1","2","3","4","5","6","7","8","9">>

Range(s) == {s[i] : i \in DOMAIN s}

UpperSet == Range(UpperChars)

LowerSet == Range(LowerChars)

DigitSet == Range(DigitChars)

WordSet == LowerSet \cup UpperSet \cup DigitSet \cup {"_"}

\* str.lower() on one character
LowerChar(c) ==
    IF c \in UpperSet
    THEN LowerChars[CHOOSE i \in DOMAIN UpperChars : UpperChars[i] = c]
    ELSE c

\* str.lower()
Lower(text) == [i \in DOMAIN text |-> LowerChar(text[i])]

\* the regular expression class [a-z]
IsAZ(c) == c \in LowerSet

\* the regular expression class \w, which decides where \b holds
IsWordChar(c) == c \in WordSet

\* \b at position i (between s[i-1] and s[i]); i ranges over 1..Len(s)+1
Boundary(s, i) ==
    LET before == i > 1 /\ IsWordChar(s[i-1])
        after  == i <= Len(s) /\ IsWordChar(s[i])
    IN  before # after

\* the end (exclusive) of the longest run of [a-z] that starts at i
RECURSIVE RunEnd(_, _)
RunEnd(s, i) == IF i <= Len(s) /\ IsAZ(s[i]) THEN RunEnd(s, i + 1) ELSE i

\* the end (exclusive) of the match of \b[a-z]{3,}\b at i, or 0 when there is none:
\* the greedy run is shortened until a \b follows it and at least 3 characters stay
RECURSIVE MatchEnd(_, _, _)
MatchEnd(s, i, j) ==
    IF j - i < 3 THEN 0
    ELSE IF Boundary(s, j) THEN j
    ELSE MatchEnd(s, i, j - 1)

MatchAt(s, i) == IF Boundary(s, i) THEN MatchEnd(s, i, RunEnd(s, i)) ELSE 0

\* re.findall(r'[a-z]{3,}', s): the pattern without its two \b
RECURSIVE FindAll_NoBoundary(_, _)
FindAll_NoBoundary(s, i) ==
    IF i > Len(s) THEN {}
    ELSE LET e == RunEnd(s, i)
         IN  IF e - i < 3 THEN FindAll_NoBoundary(s, IF e > i THEN e ELSE i + 1)
             ELSE {SubSeq(s, i, e - 1)} \cup FindAll_NoBoundary(s, e)

\* re.findall(r'\b[a-z]{3,}\b', s): leftmost matches, scanning left to right
RECURSIVE FindAll(_, _)
FindAll(s, i) ==
    IF i > Len(s) THEN {}
    ELSE LET e == MatchAt(s, i)
         IN  IF e = 0 THEN FindAll(s, i + 1)
             ELSE {SubSeq(s, i, e - 1)} \cup FindAll(s, e)

---------------------------------------------------------------------------
(* Fractions *)

RECURSIVE Gcd(_, _)
Gcd(a, b) == IF b = 0 THEN a ELSE Gcd(b, a % b)

Abs(x) == IF x < 0 THEN -x ELSE x

\* n/d in lowest terms with a positive denominator
Frac(n, d) ==
    LET g == Gcd(Abs(n), Abs(d))
        s == IF d < 0 THEN -1 ELSE 1
    IN  <<(s * n) \div g, (s * d) \div g>>

FLess(a, b) == a[1] * b[2] < b[1] * a[2]

FZero == <<0, 1>>

---------------------------------------------------------------------------
(* Inputs: CV texts, what the parser extracts from them, and job descriptions *)

\* the NULL of SQLite and the None of Python
NULL == "NULL"

\* "Java sql dev"
CvText1 == <<"J","a","v","a"," ","s","q","l"," ","d","e","v">>

\* "dev2 sql java"
CvText2 == <<"d","e","v","2"," ","s","q","l"," ","j","a","v","a">>

\* "Java dev"
JobText1 == <<"J","a","v","a"," ","d","e","v">>

\* "sql 12"
JobText2 == <<"s","q","l"," ","1","2">>

\* " ", a text box submitted with nothing but white space
BlankText == <<" ">>

\* not text.strip()
IsBlank(text) == \A i \in DOMAIN text : text[i] = " "

CvTexts == {CvText1, CvText2}

JobTexts == {JobText1, JobText2}

\* CVParser.extract_name: the PERSON entity spaCy finds, else "Unknown"
extract_name(text) ==
    IF text = CvText1 THEN "Ann" ELSE "Unknown"

\* CVParser.extract_email: the first address in the text, else None
extract_email(text) ==
    IF text = CvText1 THEN "ann@x.io" ELSE NULL

parse_cv(text) ==
    [name |-> extract_name(text), email |-> extract_email(text), full_text |-> text]

---------------------------------------------------------------------------
(* The encoder and the similarity engine *)

DefaultModel == "all-MiniLM-L6-v2"

OtherModel == "paraphrase-MiniLM-L3-v2"

Models == {DefaultModel, OtherModel}

\* SentenceTransformer.encode: a fixed vector per (model, text).  Both models
\* have the same dimension; the second does not normalise its output.
generate_embedding(model, text) ==
    IF model = DefaultModel
    THEN CASE text = CvText1  -> <<3, 4>>
           [] text = CvText2  -> <<-3, 4>>
           [] text = JobText1 -> <<5, 0>>
           [] OTHER           -> <<0, 5>>
    ELSE CASE text = CvText1  -> <<8, 6>>
           [] text = CvText2  -> <<0, 10>>
           [] text = JobText1 -> <<6, 8>>
           [] OTHER           -> <<10, 0>>

RECURSIVE Dot(_, _)
Dot(a, b) == IF a = <<>> THEN 0 ELSE a[1] * b[1] + Dot(Tail(a), Tail(b))

\* the exact square root; every vector of the model has an integer norm
Sqrt(n) == CHOOSE r \in 0..n : r * r = n

Norm(a) == Sqrt(Dot(a, a))

\* sklearn cosine_similarity of two row vectors (a zero row stays zero)
compute_similarity(a, b) ==
    IF Norm(a) = 0 \/ Norm(b) = 0 THEN FZero
    ELSE Frac(Dot(a, b), Norm(a) * Norm(b))

\* SentenceTransformer.encode cannot tokenize None and raises
EncodeRaises(text) == text = NULL

\* check_pairwise_arrays raises ValueError when the dimensions differ
DimensionsAgree(a, b) == Len(a) = Len(b)

---------------------------------------------------------------------------
(* The keyword engine *)

\* the keywords of the texts of the model, computed once
KeywordsOf == [t \in CvTexts \cup JobTexts |-> FindAll(Lower(t), 1)]

\* HybridMatcher.extract_keywords: set(re.findall(..., text.lower()))
extract_keywords(text) ==
    IF text \in DOMAIN KeywordsOf THEN KeywordsOf[text] ELSE FindAll(Lower(text), 1)

\* the overlap divided by the number of job keywords instead of the union
keyword_matching_score_OverJobKeywords(cv_text, job_description) ==
    LET cv_keywords  == extract_keywords(cv_text)
        job_keywords == extract_keywords(job_description)
        intersection == Cardinality(cv_keywords \cap job_keywords)
    IN  IF job_keywords = {} THEN FZero
        ELSE Frac(intersection, Cardinality(job_keywords))

\* two texts without keywords scored as identical
keyword_matching_score_EmptyIsOne(cv_text, job_description) ==
    LET cv_keywords  == extract_keywords(cv_text)
        job_keywords == extract_keywords(job_description)
        intersection == Cardinality(cv_keywords \cap job_keywords)
        union        == Cardinality(cv_keywords \cup job_keywords)
    IN  IF union > 0 THEN Frac(intersection, union) ELSE <<1, 1>>

\* HybridMatcher.keyword_matching_score
keyword_matching_score(cv_text, job_description) ==
    LET cv_keywords  == extract_keywords(cv_text)
        job_keywords == extract_keywords(job_description)
        intersection == Cardinality(cv_keywords \cap job_keywords)
        union        == Cardinality(cv_keywords \cup job_keywords)
    IN  IF job_keywords = {} THEN FZero
        ELSE IF union > 0 THEN Frac(intersection, union) ELSE FZero

---------------------------------------------------------------------------
(* Decimal keys of the artifact *)

\* str(n) for n >= 0
RECURSIVE Str(_)
Str(n) ==
    IF n < 10 THEN <<DigitChars[n + 1]>>
    ELSE Str(n \div 10) \o <<DigitChars[(n % 10) + 1]>>

DigitValue(c) == (CHOOSE i \in DOMAIN DigitChars : DigitChars[i] = c) - 1

\* int(s) for a string of decimal digits
RECURSIVE IntOf(_)
IntOf(s) ==
    IF Len(s) = 1 THEN DigitValue(s[1])
    ELSE 10 * IntOf(SubSeq(s, 1, Len(s) - 1)) + DigitValue(s[Len(s)])

---------------------------------------------------------------------------
(* Files *)

\* a file that does not exist
NoFile == [exists |-> FALSE, readable |-> FALSE, entries |-> <<>>]

\* a file whose content cannot be parsed (truncated zip, truncated JSON)
BrokenFile == [exists |-> TRUE, readable |-> FALSE, entries |-> <<>>]

\* a complete file holding the (key, value) pairs in the order written
FileOf(entries) == [exists |-> TRUE, readable |-> TRUE, entries |-> entries]

\* SemanticMatcher.load_embeddings on a file np.load can read:
\* {int(k): data[k] for k in data.files}, in the order of the file
load_embeddings(file) ==
    IF ~file.exists THEN <<>>
    ELSE [i \in DOMAIN file.entries |-> <<IntOf(file.entries[i][1]), file.entries[i][2]>>]

---------------------------------------------------------------------------
(* The candidate store *)

\* the ids of a set in ascending order: the order SELECT returns rowids in
RECURSIVE SortedIds(_)
SortedIds(S) ==
    IF S = {} THEN <<>>
    ELSE LET m == CHOOSE x \in S : \A y \in S : x <= y
         IN  <<m>> \o SortedIds(S \ {m})

\* the UNIQUE constraint on email and the NOT NULL constraint on name
IntegrityError(cands, parsed_cv) ==
    \/ parsed_cv.name = NULL
    \/ /\ parsed_cv.email # NULL
       /\ \E i \in DOMAIN cands : cands[i].email = parsed_cv.email

\* CVDatabase.insert_candidate: the new id, or 0 for the None it returns
\* after an IntegrityError
insert_candidate(cands, nid, parsed_cv) ==
    IF IntegrityError(cands, parsed_cv)
    THEN [id |-> 0, candidates |-> cands, next_id |-> nid]
    ELSE [id |-> nid, candidates |-> cands @@ (nid :> parsed_cv), next_id |-> nid + 1]

\* CVDatabase.store_embedding: INSERT OR REPLACE on the UNIQUE candidate_id
store_embedding(table, candidate_id, embedding_vector, model) ==
    [i \in DOMAIN table \cup {candidate_id} |->
        IF i = candidate_id
        THEN [embedding_vector |-> embedding_vector, model_name |-> model]
        ELSE table[i]]

---------------------------------------------------------------------------
(* The semantic ranker *)

\* x placed after every element whose key is not less than its own
RECURSIVE InsertDesc(_, _, _)
InsertDesc(sorted, x, k) ==
    IF sorted = <<>> THEN <<x>>
    ELSE IF FLess(Head(sorted)[k], x[k]) THEN <<x>> \o sorted
    ELSE <<Head(sorted)>> \o InsertDesc(Tail(sorted), x, k)

\* x placed after every element whose key is not greater than its own
RECURSIVE InsertAsc(_, _, _)
InsertAsc(sorted, x, k) ==
    IF sorted = <<>> THEN <<x>>
    ELSE IF FLess(x[k], Head(sorted)[k]) THEN <<x>> \o sorted
    ELSE <<Head(sorted)>> \o InsertAsc(Tail(sorted), x, k)

RECURSIVE SortPrefixAsc(_, _, _)
SortPrefixAsc(seq, n, k) ==
    IF n = 0 THEN <<>> ELSE InsertAsc(SortPrefixAsc(seq, n - 1, k), seq[n], k)

\* the sort with reverse=True left out
SortDesc_NoReverse(seq, k) == SortPrefixAsc(seq, Len(seq), k)

\* seq back to front
Reverse(seq) == [i \in DOMAIN seq |-> seq[Len(seq) + 1 - i]]

\* the list sorted ascending and reversed afterwards: descending, with equal
\* keys back to front
SortDesc_ReversesAscending(seq, k) == Reverse(SortPrefixAsc(seq, Len(seq), k))

RECURSIVE SortPrefix(_, _, _)
SortPrefix(seq, n, k) ==
    IF n = 0 THEN <<>> ELSE InsertDesc(SortPrefix(seq, n - 1, k), seq[n], k)

\* list.sort(key=lambda x: x[k], reverse=True): descending and stable
SortDesc(seq, k) == SortPrefix(seq, Len(seq), k)

\* the loop over embeddings.items(): the entries whose id is in candidates
ScoredEntries(embeddings, cands) ==
    LET Known(e) == e[1] \in DOMAIN cands
    IN  SelectSeq(embeddings, Known)

\* the loop without the test `candidate_id in candidates`, the name looked up
\* with candidates.get(candidate_id)
Results_KeepsStale(job_embedding, embeddings, cands) ==
    [i \in DOMAIN embeddings |->
        <<embeddings[i][1],
          IF embeddings[i][1] \in DOMAIN cands
          THEN cands[embeddings[i][1]].name ELSE NULL,
          compute_similarity(job_embedding, embeddings[i][2])>>]

\* the results list before it is sorted
Results(job_embedding, embeddings, cands) ==
    LET kept == ScoredEntries(embeddings, cands)
    IN  [i \in DOMAIN kept |->
            <<kept[i][1], cands[kept[i][1]].name,
              compute_similarity(job_embedding, kept[i][2])>>]

\* rank_candidates without the test `if not embeddings`
rank_candidates_EmptyIsOk(model, job_description, file, cands) ==
    LET job_embedding == generate_embedding(model, job_description)
        embeddings    == load_embeddings(file)
    IN  IF file.exists /\ ~file.readable
        THEN [outcome |-> "load_error", output |-> <<>>,
              effects |-> <<"embed", "load">>]
        ELSE [outcome |-> "ok",
              output |-> SortDesc(Results(job_embedding, embeddings, cands), 3),
              effects |-> <<"embed", "load", "names">>]

\* SemanticMatcher.rank_candidates of a matcher configured with `model`
rank_candidates(model, job_description, file, cands) ==
    LET job_embedding == generate_embedding(model, job_description)
        embeddings    == load_embeddings(file)
        kept          == ScoredEntries(embeddings, cands)
    IN  IF file.exists /\ ~file.readable
        THEN [outcome |-> "load_error", output |-> <<>>,
              effects |-> <<"embed", "load">>]
        ELSE IF embeddings = <<>>
        THEN [outcome |-> "no_embeddings", output |-> <<>>,
              effects |-> <<"embed", "load">>]
        ELSE IF \E i \in DOMAIN kept : ~DimensionsAgree(job_embedding, kept[i][2])
        THEN [outcome |-> "dimension_error", output |-> <<>>,
              effects |-> <<"embed", "load", "names">>]
        ELSE [outcome |-> "ok",
              output |-> SortDesc(Results(job_embedding, embeddings, cands), 3),
              effects |-> <<"embed", "load", "names">>]

---------------------------------------------------------------------------
(* The hybrid ranker *)

\* 1.0 in thousandths
One == 1000

\* 0.01 in thousandths
Tolerance == 10

WeightsValid(semantic_weight, keyword_weight) ==
    ~(Abs((semantic_weight + keyword_weight) - One) > Tolerance)

\* the two weights applied to the wrong scores
CombinedScore_WeightsSwapped(semantic_weight, semantic_score, keyword_weight, keyword_score) ==
    Frac(keyword_weight * semantic_score[1] * keyword_score[2]
            + semantic_weight * keyword_score[1] * semantic_score[2],
         One * semantic_score[2] * keyword_score[2])

\* semantic_weight * semantic_score + keyword_weight * keyword_score
CombinedScore(semantic_weight, semantic_score, keyword_weight, keyword_score) ==
    Frac(semantic_weight * semantic_score[1] * keyword_score[2]
            + keyword_weight * keyword_score[1] * semantic_score[2],
         One * semantic_score[2] * keyword_score[2])

\* str.lower() on None raises AttributeError
LowerRaises(text) == text = NULL

\* the entries of semantic_results the loop reads before extract_keywords
\* raises on a row whose full_text is NULL; 0 when it never does
RECURSIVE FirstRaising(_, _, _)
FirstRaising(semantic_results, i, cands_text) ==
    IF i > Len(semantic_results) THEN 0
    ELSE IF /\ semantic_results[i][1] \in DOMAIN cands_text
            /\ LowerRaises(cands_text[semantic_results[i][1]].full_text)
    THEN i
    ELSE FirstRaising(semantic_results, i + 1, cands_text)

\* the body of the loop over semantic_results, from position i on; cands_text
\* is table candidates as the SELECT of full_text finds it
RECURSIVE HybridLoop(_, _, _, _, _, _)
HybridLoop(semantic_results, i, job_description, semantic_weight, keyword_weight, cands_text) ==
    IF i > Len(semantic_results) THEN <<>>
    ELSE LET candidate_id   == semantic_results[i][1]
             semantic_score == semantic_results[i][3]
             rest == HybridLoop(semantic_results, i + 1, job_description,
                                semantic_weight, keyword_weight, cands_text)
         IN  IF candidate_id \notin DOMAIN cands_text THEN rest
             ELSE LET keyword_score ==
                          keyword_matching_score(cands_text[candidate_id].full_text,
                                                 job_description)
                  IN  <<<<candidate_id, semantic_results[i][2], semantic_score,
                          keyword_score,
                          CombinedScore(semantic_weight, semantic_score,
                                        keyword_weight, keyword_score)>>>> \o rest

\* hybrid_rank from the return of rank_candidates on, sorting ascending and
\* reversing the list afterwards
HybridAfter_ReversesAscending(sem, job_description, semantic_weight, keyword_weight, cands_text) ==
    IF sem.outcome # "ok" THEN sem
    ELSE IF FirstRaising(sem.output, 1, cands_text) # 0
    THEN [outcome |-> "attribute_error", output |-> <<>>,
          effects |-> sem.effects \o
              [i \in 1..FirstRaising(sem.output, 1, cands_text) |-> "full_text"]]
    ELSE [outcome |-> "ok",
          output  |-> Reverse(SortDesc_NoReverse(
                          HybridLoop(sem.output, 1, job_description,
                              semantic_weight, keyword_weight, cands_text), 5)),
          effects |-> sem.effects \o [i \in DOMAIN sem.output |-> "full_text"]]

\* hybrid_rank from the return of rank_candidates on: an exception of
\* rank_candidates goes to the caller, and so does the AttributeError of the
\* loop; else the tuples of the loop, sorted by combined score
HybridAfter(sem, job_description, semantic_weight, keyword_weight, cands_text) ==
    IF sem.outcome # "ok" THEN sem
    ELSE IF FirstRaising(sem.output, 1, cands_text) # 0
    THEN [outcome |-> "attribute_error", output |-> <<>>,
          effects |-> sem.effects \o
              [i \in 1..FirstRaising(sem.output, 1, cands_text) |-> "full_text"]]
    ELSE [outcome |-> "ok",
          output  |-> SortDesc(HybridLoop(sem.output, 1, job_description,
                          semantic_weight, keyword_weight, cands_text), 5),
          effects |-> sem.effects \o [i \in DOMAIN sem.output |-> "full_text"]]

\* hybrid_rank with the weights validated after the semantic ranking
hybrid_rank_ValidatesLate(job_description, semantic_weight, keyword_weight, file, cands, cands_text) ==
    LET sem == rank_candidates(DefaultModel, job_description, file, cands)
    IN  IF sem.outcome # "ok" THEN sem
        ELSE IF ~WeightsValid(semantic_weight, keyword_weight)
        THEN [outcome |-> "invalid_weights", output |-> <<>>,
              effects |-> sem.effects]
        ELSE HybridAfter(sem, job_description, semantic_weight, keyword_weight,
                         cands_text)

\* HybridMatcher.hybrid_rank; its semantic_matcher is SemanticMatcher().
\* cands is table candidates as rank_candidates reads it, cands_text the
\* table as the loop over the semantic results reads it afterwards.
hybrid_rank(job_description, semantic_weight, keyword_weight, file, cands, cands_text) ==
    IF ~WeightsValid(semantic_weight, keyword_weight)
    THEN [outcome |-> "invalid_weights", output |-> <<>>, effects |-> <<>>]
    ELSE HybridAfter(rank_candidates(DefaultModel, job_description, file, cands),
             job_description, semantic_weight, keyword_weight, cands_text)

---------------------------------------------------------------------------
(* The embedding store *)

\* embeddings_dict started from the entries of the file the call finds
EmbeddingsDict_KeepsPrior(model, file, cands) ==
    LET ids == SortedIds(DOMAIN cands)
        Gone(e) == IntOf(e[1]) \notin DOMAIN cands
    IN  SelectSeq(file.entries, Gone) \o
        [i \in DOMAIN ids |->
            <<Str(ids[i]), generate_embedding(model, cands[ids[i]].full_text)>>]

\* embeddings_dict: str(candidate_id) -> embedding for every row of candidates,
\* built from nothing; the file the call finds is not read
EmbeddingsDict(model, file, cands) ==
    LET ids == SortedIds(DOMAIN cands)
    IN  [i \in DOMAIN ids |->
            <<Str(ids[i]), generate_embedding(model, cands[ids[i]].full_text)>>]

\* what precompute_all_embeddings can leave behind and how it ends: it returns
\* early on an empty table; generate_embedding, np.savez_compressed and the
\* metadata write can each raise.  np.savez_compressed writes into the target
\* file itself, one array after another, so a failure leaves the file unread-
\* able or holding the arrays written so far; open(..., 'w') truncates the
\* metadata file before json.dump writes it.
PrecomputeOutcomes(model, file, meta, cands) ==
    LET ids == SortedIds(DOMAIN cands)
        embeddings_dict == EmbeddingsDict(model, file, cands)
        metadata == [i \in DOMAIN ids |-> <<Str(ids[i]), model>>]
    IN  IF ids = <<>>
        THEN {[file |-> file, meta |-> meta, outcome |-> "no_candidates"]}
        ELSE IF \E id \in DOMAIN cands : EncodeRaises(cands[id].full_text)
        THEN {[file |-> file, meta |-> meta, outcome |-> "raised_embed"]}
        ELSE {[file |-> FileOf(embeddings_dict), meta |-> FileOf(metadata),
               outcome |-> "saved"]}
             \cup {[file |-> file, meta |-> meta, outcome |-> "raised_embed"]}
             \cup {[file |-> f, meta |-> meta, outcome |-> "raised_save"] :
                     f \in {file, BrokenFile} \cup
                           {FileOf(SubSeq(embeddings_dict, 1, k)) :
                               k \in 0..(Len(ids) - 1)}}
             \cup {[file |-> FileOf(embeddings_dict), meta |-> m,
                    outcome |-> "raised_metadata"] : m \in {meta, BrokenFile}}

---------------------------------------------------------------------------
(* State machine *)

\* the record of a call; `replaced` is the artifact a precompute call found,
\* `semantic_results` the list rank_candidates gave hybrid_rank
Call(op, job, sw, kw, outcome, output, effects) ==
    [op |-> op, job_description |-> job, semantic_weight |-> sw,
     keyword_weight |-> kw, outcome |-> outcome, output |-> output,
     effects |-> effects, replaced |-> NoFile, semantic_results |-> <<>>]

\* the record of a call that returned or raised as r says
Returned(op, job, sw, kw, r) == Call(op, job, sw, kw, r.outcome, r.output, r.effects)

\* the record of a hybrid_rank call that was given semantic_results
HybridCall(job, w, r, semantic_results) ==
    [Returned("hybrid_rank", job, w[1], w[2], r)
        EXCEPT !.semantic_results = semantic_results]

\* semantic_results of a hybrid_rank call: empty when the call raised before
\* or in rank_candidates
SemanticResultsOf(job_description, w, file, cands) ==
    IF WeightsValid(w[1], w[2])
    THEN rank_candidates(DefaultModel, job_description, file, cands).output
    ELSE <<>>

\* no text function has been called on its own
NotApplied == [op |-> "none", result |-> <<>>]

Init ==
    /\ candidates = <<>>
    /\ next_id = 1
    /\ cv_embeddings = <<>>
    /\ embeddings_file = NoFile
    /\ metadata_file = NoFile
    /\ model_name = DefaultModel
    /\ last = Call("start", <<>>, 0, 0, "ok", <<>>, <<>>)
    /\ everStored = FALSE
    /\ upserted = {}
    /\ text_a = <<>>
    /\ text_b = <<>>
    /\ applied = NotApplied

\* SemanticMatcher(model_name=m)
NewSemanticMatcher(m) ==
    /\ model_name' = m
    /\ last' = Call("SemanticMatcher", <<>>, 0, 0, "ok", <<>>, <<>>)
    /\ UNCHANGED <<candidates, next_id, cv_embeddings, embeddings_file,
                   metadata_file, everStored, upserted>>
    /\ UNCHANGED textVars

\* process_single_cv(cv_text) of the demo, whose matcher is SemanticMatcher()
ProcessSingleCv(cv_text) ==
    /\ next_id <= MaxId
    /\ IF IsBlank(cv_text)
       THEN /\ last' = Call("process_single_cv", <<>>, 0, 0, "no_text", <<>>, <<>>)
            /\ UNCHANGED <<candidates, next_id, cv_embeddings, everStored,
                           upserted>>
       ELSE LET ins == insert_candidate(candidates, next_id, parse_cv(cv_text))
            IN  /\ candidates' = ins.candidates
                /\ next_id' = ins.next_id
                /\ IF ins.id # 0
                   THEN /\ cv_embeddings' = store_embedding(cv_embeddings,
                               ins.id, generate_embedding(DefaultModel, cv_text),
                               DefaultModel)
                        /\ everStored' = TRUE
                        /\ upserted' = upserted \cup {ins.id}
                        /\ last' = Call("process_single_cv", <<>>, 0, 0,
                                        "processed", <<>>, <<>>)
                   ELSE /\ UNCHANGED <<cv_embeddings, everStored, upserted>>
                        /\ last' = Call("process_single_cv", <<>>, 0, 0,
                                        "not_inserted", <<>>, <<>>)
    /\ UNCHANGED <<embeddings_file, metadata_file, model_name>>
    /\ UNCHANGED textVars

\* SemanticMatcher.precompute_all_embeddings()
PrecomputeAll ==
    /\ \E r \in PrecomputeOutcomes(model_name, embeddings_file, metadata_file,
                                   candidates) :
          /\ embeddings_file' = r.file
          /\ metadata_file' = r.meta
          /\ last' = [Call("precompute_all_embeddings", <<>>, 0, 0, r.outcome,
                           <<>>, <<>>) EXCEPT !.replaced = embeddings_file]
    /\ everStored' = TRUE
    /\ upserted' = {}
    /\ UNCHANGED <<candidates, next_id, cv_embeddings, model_name>>
    /\ UNCHANGED textVars

\* rank_candidates saving the artifact again without its stale entries
RankSemantic_PrunesArtifact(job_description) ==
    /\ LET r == rank_candidates(model_name, job_description, embeddings_file,
                                candidates)
           Live(e) == IntOf(e[1]) \in DOMAIN candidates
       IN  /\ last' = Call("rank_candidates", job_description, 0, 0, r.outcome,
                           r.output, r.effects)
           /\ embeddings_file' =
                  IF r.outcome = "ok"
                  THEN FileOf(SelectSeq(embeddings_file.entries, Live))
                  ELSE embeddings_file
    /\ UNCHANGED <<candidates, next_id, cv_embeddings, metadata_file, model_name,
                   everStored, upserted>>
    /\ UNCHANGED textVars

\* SemanticMatcher.rank_candidates(job_description)
RankSemantic(job_description) ==
    /\ last' = Returned("rank_candidates", job_description, 0, 0,
                        rank_candidates(model_name, job_description,
                                        embeddings_file, candidates))
    /\ UNCHANGED <<candidates, next_id, cv_embeddings, embeddings_file,
                   metadata_file, model_name, everStored, upserted>>
    /\ UNCHANGED textVars

\* the weight pairs the callers try, in thousandths
WeightPairs ==
    {<<700, 300>>, <<700, 500>>, <<500, 495>>}

\* HybridMatcher.hybrid_rank(job_description, semantic_weight, keyword_weight)
RankHybrid(job_description, w) ==
    /\ last' = HybridCall(job_description, w,
                    hybrid_rank(job_description, w[1], w[2], embeddings_file,
                                candidates, candidates),
                    SemanticResultsOf(job_description, w, embeddings_file,
                                      candidates))
    /\ UNCHANGED <<candidates, next_id, cv_embeddings, embeddings_file,
                   metadata_file, model_name, everStored, upserted>>
    /\ UNCHANGED textVars

\* a row of table candidates deleted through the relational store, outside
\* the ranking engine
DeleteCandidate(id) ==
    /\ id \in DOMAIN candidates
    /\ candidates' = [i \in DOMAIN candidates \ {id} |-> candidates[i]]
    /\ last' = Call("delete", <<>>, 0, 0, "ok", <<>>, <<>>)
    /\ UNCHANGED <<next_id, cv_embeddings, embeddings_file, metadata_file,
                   model_name, everStored, upserted>>
    /\ UNCHANGED textVars

Next ==
    \/ \E m \in Models : NewSemanticMatcher(m)
    \/ \E t \in CvTexts \cup {BlankText} : ProcessSingleCv(t)
    \/ PrecomputeAll
    \/ \E q \in JobTexts : RankSemantic(q)
    \/ \E q \in JobTexts : \E w \in WeightPairs : RankHybrid(q, w)
    \/ \E id \in 1..MaxId : DeleteCandidate(id)

Spec == Init /\ [][Next]_vars

---------------------------------------------------------------------------
(* The hybrid ranker while table candidates is written by another connection *)

\* the rows of cands other than those of `gone`
Without(cands, gone) == [i \in DOMAIN cands \ gone |-> cands[i]]

\* hybrid_rank(job_description, ...) while another connection deletes the rows
\* `gone` after rank_candidates has read the names and before the loop reads
\* the texts
RankHybridDuringDelete(job_description, w, gone) ==
    /\ gone # {}
    /\ gone \subseteq DOMAIN candidates
    /\ last' = HybridCall(job_description, w,
                    hybrid_rank(job_description, w[1], w[2], embeddings_file,
                                candidates, Without(candidates, gone)),
                    SemanticResultsOf(job_description, w, embeddings_file,
                                      candidates))
    /\ candidates' = Without(candidates, gone)
    /\ UNCHANGED <<next_id, cv_embeddings, embeddings_file, metadata_file,
                   model_name, everStored, upserted>>
    /\ UNCHANGED textVars

\* a row of table candidates whose full_text, a nullable column, is set to
\* NULL through the relational store
ClearFullText(id) ==
    /\ id \in DOMAIN candidates
    /\ candidates[id].full_text # NULL
    /\ candidates' = [candidates EXCEPT ![id].full_text = NULL]
    /\ last' = Call("update", <<>>, 0, 0, "ok", <<>>, <<>>)
    /\ UNCHANGED <<next_id, cv_embeddings, embeddings_file, metadata_file,
                   model_name, everStored, upserted>>
    /\ UNCHANGED textVars

RaceNext ==
    \/ \E t \in CvTexts : ProcessSingleCv(t)
    \/ PrecomputeAll
    \/ \E q \in JobTexts : \E w \in WeightPairs : RankHybrid(q, w)
    \/ \E q \in JobTexts : \E w \in WeightPairs :
          \E gone \in SUBSET (1..MaxId) : RankHybridDuringDelete(q, w, gone)
    \/ \E id \in 1..MaxId : ClearFullText(id)

RaceSpec == Init /\ [][RaceNext]_vars

---------------------------------------------------------------------------
(* The text functions of HybridMatcher called on their own *)

\* a letter of each case, a digit, the underscore and a separator
TextAlphabet == {"a", "B", "1", "_", " "}

\* every text over TextAlphabet of length n or less
RECURSIVE TextsUpTo(_)
TextsUpTo(n) ==
    IF n = 0 THEN {<<>>}
    ELSE LET shorter == TextsUpTo(n - 1)
         IN  shorter \cup {Append(t, c) : t \in shorter, c \in TextAlphabet}

ShortTexts == TextsUpTo(MaxLen)

\* "sql_ Dev java2"
MixedText == <<"s","q","l","_"," ","D","e","v"," ","j","a","v","a","2">>

\* texts of several words
SampleTexts == CvTexts \cup JobTexts \cup {MixedText}

TextInit ==
    /\ candidates = <<>>
    /\ next_id = 1
    /\ cv_embeddings = <<>>
    /\ embeddings_file = NoFile
    /\ metadata_file = NoFile
    /\ model_name = DefaultModel
    /\ last = Call("start", <<>>, 0, 0, "ok", <<>>, <<>>)
    /\ everStored = FALSE
    /\ upserted = {}
    /\ text_a \in ShortTexts \cup SampleTexts
    /\ text_b \in SampleTexts \cup {<<>>}
    /\ applied = NotApplied

\* HybridMatcher.extract_keywords(text_a)
ExtractKeywords ==
    /\ applied' = [op |-> "extract_keywords", result |-> extract_keywords(text_a)]
    /\ UNCHANGED <<candidates, next_id, cv_embeddings, embeddings_file,
                   metadata_file, model_name, last, everStored, upserted,
                   text_a, text_b>>

\* HybridMatcher.keyword_matching_score(text_a, text_b)
KeywordMatchingScore ==
    /\ applied' = [op |-> "keyword_matching_score",
                   result |-> keyword_matching_score(text_a, text_b)]
    /\ UNCHANGED <<candidates, next_id, cv_embeddings, embeddings_file,
                   metadata_file, model_name, last, everStored, upserted,
                   text_a, text_b>>

TextNext ==
    \/ ExtractKeywords
    \/ KeywordMatchingScore

TextSpec == TextInit /\ [][TextNext]_vars

---------------------------------------------------------------------------
(* The demo application: batch ingestion and the job matching tab *)

\* the float NaN pandas gives for an empty cell
NAN == <<"NaN">>

\* CVParser.parse_cv on a cell that is no string: re.findall raises TypeError
ParseRaises(cell) == cell = NAN

\* the cells of column Resume_str
Cells == CvTexts \cup {NAN}

\* every sequence of n or fewer cells
RECURSIVE RowsUpTo(_)
RowsUpTo(n) ==
    IF n = 0 THEN {<<>>}
    ELSE LET shorter == RowsUpTo(n - 1)
         IN  shorter \cup {Append(r, c) : r \in shorter, c \in Cells}

\* csv_file is None: nothing was uploaded
NoCsv == [uploaded |-> FALSE, resume_column |-> FALSE, rows |-> <<>>]

\* the uploaded files: none, one without column Resume_str, and the files
\* with that column and MaxRows or fewer rows
CsvFiles ==
    {NoCsv} \cup {[uploaded |-> TRUE, resume_column |-> FALSE, rows |-> <<>>]}
            \cup {[uploaded |-> TRUE, resume_column |-> TRUE, rows |-> r] :
                      r \in RowsUpTo(MaxRows)}

\* the loop `for idx, row in df.iterrows()` from row i on; st holds the tables
\* and the two counters, embed_raises the rows whose generate_embedding raises
RECURSIVE BatchLoop(_, _, _, _)
BatchLoop(rows, i, embed_raises, st) ==
    IF i > Len(rows) THEN st
    ELSE LET cv_text == rows[i]
             ins == insert_candidate(st.candidates, st.next_id, parse_cv(cv_text))
             after ==
                 IF ParseRaises(cv_text)
                 THEN [st EXCEPT !.errors = @ + 1,
                                 !.attempts = Append(@, "parse_error")]
                 ELSE IF ins.id = 0
                 THEN [st EXCEPT !.attempts = Append(@, "not_inserted")]
                 ELSE IF i \in embed_raises
                 THEN [st EXCEPT !.candidates = ins.candidates,
                                 !.next_id = ins.next_id,
                                 !.errors = @ + 1,
                                 !.attempts = Append(@, "embed_error")]
                 ELSE [st EXCEPT !.candidates = ins.candidates,
                                 !.next_id = ins.next_id,
                                 !.cv_embeddings = store_embedding(@, ins.id,
                                     generate_embedding(DefaultModel, cv_text),
                                     DefaultModel),
                                 !.stored = @ \cup {ins.id},
                                 !.processed = @ + 1,
                                 !.attempts = Append(@, "processed")]
         IN  BatchLoop(rows, i + 1, embed_raises, after)

\* batch_process_csv(csv_file): the tables it leaves and the report it returns
batch_process_csv(csv_file, embed_raises, cands, nid, table) ==
    LET start == [candidates |-> cands, next_id |-> nid, cv_embeddings |-> table,
                  stored |-> {}, processed |-> 0, errors |-> 0, attempts |-> <<>>]
    IN  IF ~csv_file.uploaded THEN [outcome |-> "no_file", st |-> start]
        ELSE IF ~csv_file.resume_column THEN [outcome |-> "no_column", st |-> start]
        ELSE [outcome |-> "complete",
              st |-> BatchLoop(csv_file.rows, 1, embed_raises, start)]

\* f"{x:.4f}": x in ten-thousandths, rounded to the nearest, ties to even
Format4(x) ==
    LET n  == Abs(x[1]) * 10000
        q  == n \div x[2]
        r  == n % x[2]
        m  == IF 2 * r > x[2] \/ (2 * r = x[2] /\ q % 2 = 1) THEN q + 1 ELSE q
    IN  IF x[1] < 0 THEN 0 - m ELSE m

\* results[:top_n]
Take(results, top_n) ==
    SubSeq(results, 1, IF Len(results) < top_n THEN Len(results) ELSE top_n)

\* format_match_results: one row per result, with a Keyword Score only when
\* the tuple holds one
format_match_results(results, top_n) ==
    LET shown == Take(results, top_n)
    IN  [rank \in DOMAIN shown |->
            LET row == [Rank |-> rank, Name |-> shown[rank][2],
                        ID |-> shown[rank][1],
                        SemanticScore |-> Format4(shown[rank][3]),
                        FinalScore |-> Format4(shown[rank][5])]
            IN  IF shown[rank][4] # NULL
                THEN row @@ [KeywordScore |-> Format4(shown[rank][4])]
                ELSE row]

\* the "Semantic Only" branch reporting a keyword score of 0.0
SemanticOnlyResults_ZeroKeyword(semantic_results) ==
    [i \in DOMAIN semantic_results |->
        <<semantic_results[i][1], semantic_results[i][2], semantic_results[i][3],
          FZero, semantic_results[i][3]>>]

\* the tuples of the "Semantic Only" branch
SemanticOnlyResults(semantic_results) ==
    [i \in DOMAIN semantic_results |->
        <<semantic_results[i][1], semantic_results[i][2], semantic_results[i][3],
          NULL, semantic_results[i][3]>>]

SemanticOnly == "Semantic Only"

Hybrid == "Hybrid (Recommended)"

\* the "Semantic Only" branch applied to what rank_candidates returned
SemanticOnlyBranch(sem) ==
    [outcome |-> sem.outcome, output |-> SemanticOnlyResults(sem.output)]

\* the table and the summary built from `results`; results[0] raises
\* IndexError on an empty list, and every exception becomes an error message
MatchOutcome(r, top_n) ==
    IF r.outcome # "ok"
    THEN [outcome |-> r.outcome, results |-> <<>>, table |-> NULL]
    ELSE IF r.output = <<>>
    THEN [outcome |-> "index_error", results |-> r.output, table |-> NULL]
    ELSE [outcome |-> "ok", results |-> r.output,
          table |-> format_match_results(r.output, top_n)]

\* match_job_description(job_desc, matching_type, top_n, semantic_weight)
match_job_description(job_desc, matching_type, top_n, semantic_weight, file, cands) ==
    IF IsBlank(job_desc)
    THEN [outcome |-> "no_text", results |-> <<>>, table |-> NULL]
    ELSE MatchOutcome(
             IF matching_type = SemanticOnly
             THEN SemanticOnlyBranch(
                      rank_candidates(DefaultModel, job_desc, file, cands))
             ELSE hybrid_rank(job_desc, semantic_weight, One - semantic_weight,
                              file, cands, cands),
             top_n)

\* the values the sliders and the radio button of the matching tab give
TopNs == {5}

SemanticWeights == {700, 1000}

MatchingTypes == {Hybrid, SemanticOnly}

\* "go 12"
JobText3 == <<"g","o"," ","1","2">>

DemoJobTexts == JobTexts \cup {JobText3, BlankText}

\* the button "Process Batch"
BatchProcessCsv(csv_file, embed_raises) ==
    /\ next_id + Len(csv_file.rows) <= MaxId + 1
    /\ embed_raises \subseteq DOMAIN csv_file.rows
    /\ LET r == batch_process_csv(csv_file, embed_raises, candidates, next_id,
                                  cv_embeddings)
       IN  /\ candidates' = r.st.candidates
           /\ next_id' = r.st.next_id
           /\ cv_embeddings' = r.st.cv_embeddings
           /\ everStored' = (everStored \/ r.st.stored # {})
           /\ upserted' = upserted \cup r.st.stored
           /\ last' = [op |-> "batch_process_csv", outcome |-> r.outcome,
                       csv_file |-> csv_file, embed_raises |-> embed_raises,
                       processed |-> r.st.processed, errors |-> r.st.errors,
                       attempts |-> r.st.attempts]
    /\ UNCHANGED <<embeddings_file, metadata_file, model_name>>
    /\ UNCHANGED textVars

\* the record of a match_job_description call that ended as r says
MatchCall(job_desc, matching_type, semantic_weight, r) ==
    [op |-> "match_job_description", outcome |-> r.outcome,
     job_description |-> job_desc, matching_type |-> matching_type,
     semantic_weight |-> semantic_weight, results |-> r.results,
     table |-> r.table]

\* the button "Find Matching Candidates"
MatchJobDescription(job_desc, matching_type, top_n, semantic_weight) ==
    /\ last' = MatchCall(job_desc, matching_type, semantic_weight,
                   match_job_description(job_desc, matching_type, top_n,
                       semantic_weight, embeddings_file, candidates))
    /\ UNCHANGED <<candidates, next_id, cv_embeddings, embeddings_file,
                   metadata_file, model_name, everStored, upserted>>
    /\ UNCHANGED textVars

DemoNext ==
    \/ \E t \in CvTexts \cup {BlankText} : ProcessSingleCv(t)
    \/ \E f \in CsvFiles : \E e \in SUBSET (1..MaxRows) : BatchProcessCsv(f, e)
    \/ PrecomputeAll
    \/ \E q \in DemoJobTexts : \E m \in MatchingTypes : \E n \in TopNs :
          \E w \in SemanticWeights : MatchJobDescription(q, m, n, w)

DemoSpec == Init /\ [][DemoNext]_vars

---------------------------------------------------------------------------
(* The matching tab over a candidate store that loses rows *)

StaleNext ==
    \/ \E t \in CvTexts : ProcessSingleCv(t)
    \/ PrecomputeAll
    \/ \E id \in 1..MaxId : DeleteCandidate(id)
    \/ \E q \in DemoJobTexts : \E m \in MatchingTypes : \E n \in TopNs :
          \E w \in SemanticWeights : MatchJobDescription(q, m, n, w)

StaleSpec == Init /\ [][StaleNext]_vars

---------------------------------------------------------------------------
(* Properties *)

RankOps == {"rank_candidates", "hybrid_rank"}

\* the outcomes that are an exception raised to the caller
RaisedOutcomes ==
    {"load_error", "no_embeddings", "dimension_error", "invalid_weights",
     "raised_embed", "raised_save", "raised_metadata"}

OutputIds(output) == {output[i][1] : i \in DOMAIN output}

\* the ids of the entries of the artifact
FileIds(file) == {IntOf(file.entries[i][1]) : i \in DOMAIN file.entries}

\* |semantic_weight + keyword_weight - 1.0| > 0.01 for the last call
LastWeightsOff ==
    \/ last.semantic_weight + last.keyword_weight - One > Tolerance
    \/ One - (last.semantic_weight + last.keyword_weight) > Tolerance

\* C1: a candidate given to store_embedding since the last precompute, and
\* still in the candidates table, is in the output of every ranking call.
C1_UpsertedCandidateIsRanked ==
    (last.op \in RankOps /\ ~(last.op = "hybrid_rank" /\ LastWeightsOff))
        => \A id \in upserted \cap DOMAIN candidates :
              last.outcome = "ok" /\ id \in OutputIds(last.output)

\* C2: hybrid_rank with weights off by more than the tolerance raises the
\* weights error having embedded, loaded and read nothing, whatever the state
\* of the embedding store; weights within the tolerance are accepted.
C2_InvalidWeightsFailFast ==
    last.op = "hybrid_rank" =>
        IF LastWeightsOff
        THEN last.outcome = "invalid_weights" /\ last.effects = <<>>
        ELSE last.outcome # "invalid_weights"

\* C2 witness: the weights are rejected while there is no embedding to load
C2_Witness ==
    /\ last.op = "hybrid_rank"
    /\ LastWeightsOff
    /\ load_embeddings(embeddings_file) = <<>>
    /\ last.outcome = "invalid_weights"

\* C3: rank_candidates called before any precompute_all_embeddings and any
\* store_embedding raises the no-embeddings error.
C3_NoEmbeddingsBeforeAnyStore ==
    (last.op = "rank_candidates" /\ ~everStored) => last.outcome = "no_embeddings"

\* C3 witness: a ranking call before anything was stored
C3_Witness ==
    last.op = "rank_candidates" /\ ~everStored /\ last.outcome = "no_embeddings"

\* the model the last ranking call embedded the job description with
QueryModel == IF last.op = "hybrid_rank" THEN DefaultModel ELSE model_name

\* the models the metadata file records for a candidate id
RecordedModels(id) ==
    {metadata_file.entries[i][2] :
        i \in {j \in DOMAIN metadata_file.entries :
                  IntOf(metadata_file.entries[j][1]) = id}}

\* C4: every vector a ranking call scores has, in the metadata file, the model
\* of the matcher that embedded the job description.
C4_ScoredVectorsShareQueryModel ==
    (last.op \in RankOps /\ last.outcome = "ok")
        => \A id \in OutputIds(last.output) : RecordedModels(id) \subseteq {QueryModel}

\* C5: after precompute_all_embeddings the artifact is the complete new one
\* when the call succeeded and the one the call found when it did not.
C5_PrecomputeIsAtomic ==
    last.op = "precompute_all_embeddings" =>
        IF last.outcome = "saved"
        THEN /\ embeddings_file.readable
             /\ FileIds(embeddings_file) = DOMAIN candidates
        ELSE embeddings_file = last.replaced

\* C6: precompute_all_embeddings on an empty candidates table raises an error
\* and leaves the artifact as it found it.
C6_EmptyPrecomputeFailsLoudly ==
    (last.op = "precompute_all_embeddings" /\ DOMAIN candidates = {})
        => /\ last.outcome \in RaisedOutcomes
           /\ embeddings_file = last.replaced

\* C7: after a successful precompute_all_embeddings, load_embeddings returns
\* exactly one entry per row of candidates, keyed by its integer id and holding
\* the matcher's embedding of its full_text, and nothing else.
C7_PrecomputeStoresExactlyCandidates ==
    (last.op = "precompute_all_embeddings" /\ last.outcome = "saved") =>
        /\ DOMAIN candidates # {}
        /\ embeddings_file.exists /\ embeddings_file.readable
        /\ LET loaded == load_embeddings(embeddings_file)
           IN  /\ {loaded[i][1] : i \in DOMAIN loaded} = DOMAIN candidates
               /\ Len(loaded) = Cardinality(DOMAIN candidates)
               /\ \A i \in DOMAIN loaded :
                     loaded[i][2] = generate_embedding(model_name,
                                        candidates[loaded[i][1]].full_text)

\* C7 witness: the artifact the call replaced held an id that is no longer a row
C7_Witness ==
    /\ last.op = "precompute_all_embeddings"
    /\ last.outcome = "saved"
    /\ FileIds(last.replaced) \ DOMAIN candidates # {}

\* C8: with a non-empty embedding store, rank_candidates returns, once each,
\* exactly the stored ids that are rows of candidates, and raises no error.
C8_RankSkipsStaleEntries ==
    (/\ last.op = "rank_candidates"
     /\ embeddings_file.readable
     /\ embeddings_file.entries # <<>>)
        => /\ last.outcome = "ok"
           /\ OutputIds(last.output) = FileIds(embeddings_file) \cap DOMAIN candidates
           /\ Len(last.output) = Cardinality(OutputIds(last.output))

\* C8 witness: one stored id is stale and another is ranked
C8_Witness ==
    /\ last.op = "rank_candidates"
    /\ embeddings_file.readable
    /\ FileIds(embeddings_file) \ DOMAIN candidates # {}
    /\ last.outcome = "ok"
    /\ last.output # <<>>

\* C9: the list rank_candidates returns is in descending order of score.
C9_RankSortedDescending ==
    (last.op = "rank_candidates" /\ last.outcome = "ok") =>
        \A i \in 1..(Len(last.output) - 1) :
            ~FLess(last.output[i][3], last.output[i + 1][3])

\* C9 witness: two entries with different scores, returned against the order
\* of the ids in the artifact
C9_Witness ==
    /\ last.op = "rank_candidates"
    /\ last.outcome = "ok"
    /\ Len(last.output) = 2
    /\ last.output[1][1] > last.output[2][1]
    /\ FLess(last.output[2][3], last.output[1][3])

\* C10: every tuple of hybrid_rank has the id, name and score of an entry of
\* the semantic ranking, the keyword score of the candidate's full_text against
\* the job description, and the weighted sum of the two as combined score.
C10_HybridTupleArithmetic ==
    (last.op = "hybrid_rank" /\ last.outcome = "ok") =>
        LET sem == rank_candidates(DefaultModel, last.job_description,
                                   embeddings_file, candidates).output
        IN  \A i \in DOMAIN last.output :
                LET t == last.output[i]
                IN  /\ \E j \in DOMAIN sem : sem[j] = <<t[1], t[2], t[3]>>
                    /\ t[4] = keyword_matching_score(candidates[t[1]].full_text,
                                                     last.job_description)
                    /\ t[5][2] > 0
                    /\ t[5][1] * (One * t[3][2] * t[4][2])
                         = t[5][2] * (last.semantic_weight * t[3][1] * t[4][2]
                                      + last.keyword_weight * t[4][1] * t[3][2])

\* C10 witness: a tuple whose two scores differ and whose weights differ
C10_Witness ==
    /\ last.op = "hybrid_rank"
    /\ last.outcome = "ok"
    /\ last.semantic_weight # last.keyword_weight
    /\ \E i \in DOMAIN last.output :
          /\ last.output[i][4][1] # 0
          /\ last.output[i][3] # last.output[i][4]

\* the position of candidate id in a ranking
PositionOf(ranking, id) == CHOOSE i \in DOMAIN ranking : ranking[i][1] = id

\* C11: the list hybrid_rank returns is in descending order of combined score,
\* and two tuples with the same combined score are in the order the semantic
\* ranking has them in.
C11_HybridSortedStable ==
    (last.op = "hybrid_rank" /\ last.outcome = "ok") =>
        LET sem == rank_candidates(DefaultModel, last.job_description,
                                   embeddings_file, candidates).output
        IN  \A i \in DOMAIN last.output : \A j \in DOMAIN last.output :
                i < j =>
                    /\ ~FLess(last.output[i][5], last.output[j][5])
                    /\ last.output[i][5] = last.output[j][5]
                          => PositionOf(sem, last.output[i][1])
                               < PositionOf(sem, last.output[j][1])

\* C11 witness: two tuples with the same combined score
C11_Witness ==
    /\ last.op = "hybrid_rank"
    /\ last.outcome = "ok"
    /\ Len(last.output) = 2
    /\ last.output[1][5] = last.output[2][5]

\* the outcomes of hybrid_rank that are raised before the loop over the
\* semantic results starts
BeforeLoopOutcomes ==
    {"invalid_weights", "load_error", "no_embeddings", "dimension_error"}

\* C12: a hybrid_rank call that got a semantic ranking returns, without raising,
\* exactly the ranked candidates whose row is still there and holds a full_text.
C12_HybridSkipsMissingText ==
    (last.op = "hybrid_rank" /\ last.outcome \notin BeforeLoopOutcomes) =>
        /\ last.outcome = "ok"
        /\ OutputIds(last.output) =
               {id \in OutputIds(last.semantic_results) :
                   /\ id \in DOMAIN candidates
                   /\ candidates[id].full_text # NULL}

\* 0 <= x <= 1 for a fraction with a positive denominator
InUnitInterval(x) == 0 <= x[1] /\ x[1] <= x[2]

\* C13: every tuple of a hybrid_rank call whose weights were accepted has a
\* combined score in [0, 1].
C13_CombinedScoreInUnitInterval ==
    (last.op = "hybrid_rank" /\ last.outcome = "ok") =>
        \A i \in DOMAIN last.output : InUnitInterval(last.output[i][5])

\* |S \cap T| / |S \cup T|, and 0 when the union is empty
Jaccard(S, T) ==
    IF S \cup T = {} THEN FZero
    ELSE Frac(Cardinality(S \cap T), Cardinality(S \cup T))

\* C14: keyword_matching_score(A, B) is the Jaccard similarity of the keyword
\* sets of A and B, 0 when both are empty, and the same with A and B exchanged.
C14_OverlapIsJaccardAndSymmetric ==
    applied.op = "keyword_matching_score" =>
        /\ applied.result = Jaccard(extract_keywords(text_a), extract_keywords(text_b))
        /\ applied.result = keyword_matching_score(text_b, text_a)

\* C14 witness: the job description has no keyword and the CV has some, the
\* case the code treats apart
C14_Witness ==
    /\ applied.op = "keyword_matching_score"
    /\ extract_keywords(text_a) # {}
    /\ extract_keywords(text_b) = {}
    /\ applied.result = FZero

\* C15: keyword_matching_score(A, B) is in [0, 1]; it is 1 for B = A with
\* keywords; it is 0 when neither text has a keyword.
C15_OverlapBounds ==
    applied.op = "keyword_matching_score" =>
        /\ InUnitInterval(applied.result)
        /\ (text_a = text_b /\ extract_keywords(text_a) # {})
              => applied.result = <<1, 1>>
        /\ (extract_keywords(text_a) = {} /\ extract_keywords(text_b) = {})
              => applied.result = FZero

\* C15 witness: a text with keywords scored against itself
C15_Witness ==
    /\ applied.op = "keyword_matching_score"
    /\ text_a = text_b
    /\ extract_keywords(text_a) # {}
    /\ applied.result = <<1, 1>>

\* the runs of three or more letters of s that no letter precedes or follows
MaximalRuns(s) ==
    {SubSeq(s, i, j) : <<i, j>> \in
        {r \in (1..Len(s)) \X (1..Len(s)) :
            /\ r[2] - r[1] >= 2
            /\ \A k \in r[1]..r[2] : IsAZ(s[k])
            /\ r[1] = 1 \/ ~IsAZ(s[r[1] - 1])
            /\ r[2] = Len(s) \/ ~IsAZ(s[r[2] + 1])}}

\* the maximal runs that no digit and no underscore touches either
WholeWordRuns(s) ==
    {SubSeq(s, i, j) : <<i, j>> \in
        {r \in (1..Len(s)) \X (1..Len(s)) :
            /\ r[2] - r[1] >= 2
            /\ \A k \in r[1]..r[2] : IsAZ(s[k])
            /\ r[1] = 1 \/ ~IsWordChar(s[r[1] - 1])
            /\ r[2] = Len(s) \/ ~IsWordChar(s[r[2] + 1])}}

\* C16 as stated: extract_keywords(text) is the set of all maximal runs of three
\* or more letters of the lower-cased text, also of those next to a digit or
\* an underscore.
C16_TokensAreMaximalRuns ==
    applied.op = "extract_keywords" => applied.result = MaximalRuns(Lower(text_a))

\* C16 amended: extract_keywords(text) is the set of the maximal runs of three
\* or more letters of the lower-cased text that no digit and no underscore
\* touches; a run next to a digit or an underscore is no token, whole or in part.
C16_TokensAreWholeWordRuns ==
    applied.op = "extract_keywords" => applied.result = WholeWordRuns(Lower(text_a))

\* C16 witness: one run is a token and another, next to a digit or an
\* underscore, is not
C16_Witness ==
    /\ applied.op = "extract_keywords"
    /\ applied.result # {}
    /\ MaximalRuns(Lower(text_a)) \ applied.result # {}

\* the rows of the last batch that were not processed
FailedRows == {i \in DOMAIN last.attempts : last.attempts[i] # "processed"}

\* C17: batch_process_csv attempts every row of the file in order, whatever
\* fails in a row, counts every row that failed to parse, insert or embed as
\* an error, and ends with the report of the counts.
C17_BatchCountsEveryFailure ==
    (last.op = "batch_process_csv" /\ last.csv_file.resume_column) =>
        /\ last.outcome = "complete"
        /\ Len(last.attempts) = Len(last.csv_file.rows)
        /\ last.errors = Cardinality(FailedRows)

\* C18: in mode "Semantic Only" the results are the tuples of rank_candidates
\* in its order, with no keyword score and the semantic score as final score;
\* in hybrid mode every tuple holds a keyword score; and a row of the table
\* shows a keyword score exactly when its tuple holds one.
C18_KeywordScoreShownWhenComputed ==
    (last.op = "match_job_description" /\ last.outcome = "ok") =>
        /\ last.matching_type = SemanticOnly =>
              LET sem == rank_candidates(DefaultModel, last.job_description,
                                         embeddings_file, candidates).output
              IN  /\ Len(last.results) = Len(sem)
                  /\ \A i \in DOMAIN sem :
                        last.results[i] = <<sem[i][1], sem[i][2], sem[i][3],
                                            NULL, sem[i][3]>>
        /\ last.matching_type = Hybrid =>
              \A i \in DOMAIN last.results :
                  /\ last.results[i][4] # NULL
                  /\ InUnitInterval(last.results[i][4])
        /\ \A i \in DOMAIN last.table :
              ("KeywordScore" \in DOMAIN last.table[i])
                  <=> (last.matching_type = Hybrid)

\* C18 witness: hybrid mode with a keyword score of 0.0, shown in the table
C18_Witness ==
    /\ last.op = "match_job_description"
    /\ last.outcome = "ok"
    /\ last.matching_type = Hybrid
    /\ \E i \in DOMAIN last.table :
          /\ last.results[i][4] = FZero
          /\ "KeywordScore" \in DOMAIN last.table[i]
          /\ last.table[i].KeywordScore = 0

\* what the ranking call recorded in `last` returns when called again now
CalledAgain ==
    IF last.op = "rank_candidates"
    THEN rank_candidates(model_name, last.job_description, embeddings_file,
                         candidates)
    ELSE hybrid_rank(last.job_description, last.semantic_weight,
                     last.keyword_weight, embeddings_file, candidates, candidates)

\* C19: a step of rank_candidates or hybrid_rank, returning or raising, leaves
\* the artifact, its metadata and the two tables as they were, and the same
\* call made again right after returns the same list.
C19_RankingReadsOnly ==
    /\ [][last'.op \in RankOps =>
             UNCHANGED <<embeddings_file, metadata_file, candidates,
                         cv_embeddings, next_id>>]_vars
    /\ [](last.op \in RankOps =>
             /\ CalledAgain.outcome = last.outcome
             /\ CalledAgain.output = last.output)

\* C19 witness: hybrid_rank has returned a list while the artifact holds an
\* entry that is no row of candidates any more
C19_Witness ==
    /\ last.op = "hybrid_rank"
    /\ last.outcome = "ok"
    /\ last.output # <<>>
    /\ FileIds(embeddings_file) \ DOMAIN candidates # {}

\* C20: two candidates rank_candidates gives the same score are in the order
\* their entries have in the loaded embeddings.
C20_RankTiesKeepLoadOrder ==
    (last.op = "rank_candidates" /\ last.outcome = "ok") =>
        LET embeddings == load_embeddings(embeddings_file)
        IN  \A i \in DOMAIN last.output : \A j \in DOMAIN last.output :
                (i < j /\ last.output[i][3] = last.output[j][3])
                    => PositionOf(embeddings, last.output[i][1])
                         < PositionOf(embeddings, last.output[j][1])

\* C20 witness: two candidates with different texts and the same score
C20_Witness ==
    /\ last.op = "rank_candidates"
    /\ last.outcome = "ok"
    /\ Len(last.output) = 2
    /\ last.output[1][3] = last.output[2][3]
    /\ candidates[1].full_text # candidates[2].full_text

\* the vectors a ranking call compared: the job embedding and the stored
\* vectors of the candidates it returned
ComparedVectors ==
    {generate_embedding(QueryModel, last.job_description)} \cup
    {load_embeddings(embeddings_file)[i][2] :
        i \in DOMAIN load_embeddings(embeddings_file)}

\* C21: the semantic score of every tuple rank_candidates or hybrid_rank
\* returns lies in [0, 1], the query and the stored vectors being non-zero
\* and of equal dimension.
C21_SemanticScoreInUnitInterval ==
    (/\ last.op \in RankOps
     /\ last.outcome = "ok"
     /\ \A v \in ComparedVectors : Norm(v) # 0
     /\ \A v \in ComparedVectors : \A u \in ComparedVectors : DimensionsAgree(u, v))
        => \A i \in DOMAIN last.output : InUnitInterval(last.output[i][3])

\* C22: when batch_process_csv completes over a file of N records, the two
\* counts of its report add up to N.
C22_CountsAccountForEveryRecord ==
    (last.op = "batch_process_csv" /\ last.outcome = "complete") =>
        last.processed + last.errors = Len(last.csv_file.rows)

\* the candidate ids that have a record in the metadata file
MetadataIds == FileIds(metadata_file)

\* the model whose encoder gives the vector v; the vectors of the two
\* encoders of the model differ in length, so it is the only one
ProducedBy(v) ==
    CHOOSE m \in Models : \E t \in CvTexts : generate_embedding(m, t) = v

\* C23: between calls of precompute_all_embeddings, whether they returned or
\* raised, the ids with a metadata record are the ids of the embedding
\* artifact, and the record of each names the model that produced its vector.
C23_MetadataMatchesArtifact ==
    /\ MetadataIds = FileIds(embeddings_file)
    /\ \A i \in DOMAIN embeddings_file.entries :
          RecordedModels(IntOf(embeddings_file.entries[i][1]))
              = {ProducedBy(embeddings_file.entries[i][2])}

\* the ranking call the last match_job_description made, made again on the
\* stores the handler left as it found them
UnderlyingRanking ==
    IF last.matching_type = SemanticOnly
    THEN rank_candidates(DefaultModel, last.job_description, embeddings_file,
                         candidates)
    ELSE hybrid_rank(last.job_description, last.semantic_weight,
                     One - last.semantic_weight, embeddings_file, candidates,
                     candidates)

\* C24: match_job_description on a job description that is not blank returns
\* the table and the summary, no error message, whenever its ranking call
\* returns without raising, the empty ranking included.
C24_MatchReportsWheneverRankingReturns ==
    (/\ last.op = "match_job_description"
     /\ ~IsBlank(last.job_description)
     /\ UnderlyingRanking.outcome = "ok")
        => last.outcome = "ok"

===========================================================================
